---- MODULE Spec2Model ----
(***************************************************************************)
(* Model of streamlit_app.py: the vehicle-damage dashboard.  One browser   *)
(* session is modelled.  Every widget interaction starts a run of main();  *)
(* a run is cut into the four consecutive parts of main() (load the model, *)
(* uploader and example gallery, selection of the image source, analysis   *)
(* and rendering).  Confidences are integers in thousandths (800 = 0.8).   *)
(***************************************************************************)
EXTENDS Integers, Sequences, FiniteSets, TLC

VARIABLES
    pc,             \* position of the script: "start","gallery","select","results","idle"
    model_cache,    \* st.cache_resource entry of load_model: "empty", "YOLO" or None
    session_state,  \* st.session_state: function from the present keys to values
    uploaded_file,  \* value of the st.file_uploader widget (None or a file)
    pressed,        \* the button whose press triggered the current run
    trigger,        \* what started the current run: "open", "user" or an st.rerun()
    example_image,  \* main's local `example_image`
    shown,          \* set of elements rendered by the current run
    run_end,        \* how the last run ended
    model,          \* main's local `model`
    image_source,   \* main's local `image_source`
    image_name,     \* main's local `image_name`
    results,        \* boxes of results[0] returned by the detector in this run
    detector_arg,   \* the model object process_image was called with in this run
    detections,     \* main's local `detections`
    annotated_img,  \* main's local `annotated_img`
    summary,        \* main's local `summary`
    df_detections,  \* rows of the results table
    high_conf,      \* len(high_conf_damages) reported by the success message
    last_image,     \* the image the previous run's analysis was made on
    last_results    \* and the boxes the detector returned for it

vars == <<pc, model_cache, session_state, uploaded_file, pressed, trigger,
          example_image, shown, run_end,
          model, image_source, image_name, results, detector_arg, detections,
          annotated_img, summary, df_detections, high_conf, last_image, last_results>>

\* ---------------------------------------------------------------- bounds
MaxBoxes == 3

\* ------------------------------------------------------------- constants
None == "None"
NotCalled == "not called"

\* confidence threshold of the high-confidence message, in thousandths
HighConfThreshold == 800

\* names of the weights loaded by load_model (COCO classes of yolo11m.pt), excerpt
ModelNames == (0 :> "person") @@ (2 :> "car")

\* the classes the sidebar says the system detects
DamageClasses == {"dent", "scratch", "crack", "shattered_glass", "broken_lamp", "flat_tire"}

\* confidences and box coordinates the detector may report
Confs == {800, 900}
Coords == {1, 2, 3, 4}

\* the boxes the detector may report: every class with every confidence, the
\* coordinates telling the boxes apart
Boxes == {b \in [cls : DOMAIN ModelNames, conf : Confs, xyxy : Coords] :
            b.xyxy = (IF b.cls = 0 THEN 1 ELSE 3) + (IF b.conf = 800 THEN 0 ELSE 1)}

BoxSeqs == UNION {[1..n -> Boxes] : n \in 0..MaxBoxes}

UploadFiles == {"upload_a.jpg"}

example_images == <<
    [path |-> "examples/1.png", label |-> "Dent - Amassado",   key |-> "example_0"],
    [path |-> "examples/2.png", label |-> "Múltiplos Danos",   key |-> "example_1"],
    [path |-> "examples/3.png", label |-> "Vidro Estilhaçado", key |-> "example_2"],
    [path |-> "examples/4.png", label |-> "Lâmpada Quebrada",  key |-> "example_3"],
    [path |-> "examples/5.png", label |-> "Dent - Lateral",    key |-> "example_4"],
    [path |-> "examples/6.png", label |-> "Riscos",            key |-> "example_5"],
    [path |-> "examples/7.png", label |-> "Múltiplos Riscos",  key |-> "example_6"] >>

\* ------------------------------------------------------------ exceptions
\* classes derived from Exception; streamlit's RerunException derives from
\* BaseException only
IsException(exc) == exc \in {"URLError", "RuntimeError", "OSError", "AttributeError"}

\* `except Exception as e:` of load_model
ExceptExceptionCatches(exc) == IsException(exc)

\* the bare `except:` around the example button's body
BareExceptCatches(exc) == exc # None

\* ---------------------------------------------------------- load_model
\* the try body of load_model: the exception it raises (None if none) and
\* the value it returns
load_model_body(exists, download, construct) ==
    IF ~exists /\ download = "error" THEN [raised |-> "URLError", value |-> None]
    ELSE IF construct = "error" THEN [raised |-> "RuntimeError", value |-> None]
    ELSE [raised |-> None, value |-> "YOLO"]

\* load_model: the body under its `except Exception` handler
load_model(exists, download, construct) ==
    LET out == load_model_body(exists, download, construct) IN
    IF out.raised # None /\ ExceptExceptionCatches(out.raised)
    THEN [raised |-> None, value |-> None, error |-> TRUE]
    ELSE [raised |-> out.raised, value |-> out.value, error |-> FALSE]

\* mutant: the guard after load_model() is missing
ModelGuardMissing(m) == FALSE

\* `if model is None: st.error(...); return`
ModelGuard(m) == m = None

\* -------------------------------------------------------- process_image
RECURSIVE BuildDetections(_, _, _)
\* the loop `for i in range(len(boxes))` from index i on
BuildDetections(boxes, names, i) ==
    IF i > Len(boxes) THEN <<>>
    ELSE <<[class |-> names[boxes[i].cls],
            confidence |-> boxes[i].conf,
            bbox |-> boxes[i].xyxy]>> \o BuildDetections(boxes, names, i + 1)

\* mutant: boxes at or below the high-confidence threshold are dropped
process_image_filtered(image, boxes, names, plot_ok) ==
    LET kept == SelectSeq(boxes, LAMBDA b : b.conf > 800) IN
    [detections |-> BuildDetections(kept, names, 1),
     annotated_img |-> [of |-> image, plotted |-> plot_ok, boxes |-> kept]]

\* process_image on the detector's result; plot_ok: results[0].plot() did not raise
process_image(image, boxes, names, plot_ok) ==
    [detections |-> IF Len(boxes) > 0 THEN BuildDetections(boxes, names, 1) ELSE <<>>,
     annotated_img |-> IF plot_ok THEN [of |-> image, plotted |-> TRUE, boxes |-> boxes]
                       ELSE [of |-> image, plotted |-> FALSE, boxes |-> <<>>]]

\* ------------------------------------------------ create_detection_summary
\* index of damage_type among the keys of damage_counts, 0 if absent
KeyIndex(damage_counts, damage_type) ==
    IF \E k \in 1..Len(damage_counts) : damage_counts[k].damage_type = damage_type
    THEN CHOOSE k \in 1..Len(damage_counts) : damage_counts[k].damage_type = damage_type
    ELSE 0

\* mutant: a later detection of a class replaces the confidences collected
CountDetectionOverwrite(damage_counts, detection) ==
    LET k == KeyIndex(damage_counts, detection.class) IN
    IF k = 0
    THEN Append(damage_counts, [damage_type |-> detection.class,
                                confidences |-> <<detection.confidence>>])
    ELSE [damage_counts EXCEPT ![k].confidences = <<detection.confidence>>]

\* one iteration of `for detection in detections`
CountDetection(damage_counts, detection) ==
    LET k == KeyIndex(damage_counts, detection.class) IN
    IF k = 0
    THEN Append(damage_counts, [damage_type |-> detection.class,
                                confidences |-> <<detection.confidence>>])
    ELSE [damage_counts EXCEPT ![k].confidences = Append(@, detection.confidence)]

RECURSIVE GroupByClass(_, _, _)
GroupByClass(dets, i, damage_counts) ==
    IF i > Len(dets) THEN damage_counts
    ELSE GroupByClass(dets, i + 1, CountDetection(damage_counts, dets[i]))

RECURSIVE SeqSum(_)
SeqSum(s) == IF s = <<>> THEN 0 ELSE Head(s) + SeqSum(Tail(s))

\* np.mean as the exact quotient sum / n
Mean(confidences) == [sum |-> SeqSum(confidences), n |-> Len(confidences)]

\* f"{x:.1%}" of the quotient num/den of thousandths: the nearest tenth of a
\* percent, ties to even
FormatPercent(num, den) ==
    LET q == num \div den
        r == num % den
        t == IF 2 * r > den THEN q + 1
             ELSE IF 2 * r < den THEN q
             ELSE IF q % 2 = 0 THEN q ELSE q + 1
    IN [whole |-> t \div 10, tenth |-> t % 10]

\* s.replace('_', ' ').title() on the class names that occur
CleanName(s) ==
    CASE s = "person" -> "Person"
      [] s = "car" -> "Car"
      [] s = "shattered_glass" -> "Shattered Glass"
      [] s = "flat_tire" -> "Flat Tire"
      [] s = "broken_lamp" -> "Broken Lamp"
      [] OTHER -> s

SummaryLine(entry) ==
    [damage_type |-> entry.damage_type,
     title |-> CleanName(entry.damage_type),
     count |-> Len(entry.confidences),
     avg_confidence |-> Mean(entry.confidences),
     text |-> FormatPercent(SeqSum(entry.confidences), Len(entry.confidences))]

EmptySummary == [head |-> "Nenhum dano detectado na imagem.", total |-> 0, lines |-> <<>>]

NoSummary == [head |-> None, total |-> 0, lines |-> <<>>]

create_detection_summary(dets) ==
    IF dets = <<>> THEN EmptySummary
    ELSE LET damage_counts == GroupByClass(dets, 1, <<>>) IN
         [head |-> "Total de danos detectados",
          total |-> Len(dets),
          lines |-> [k \in 1..Len(damage_counts) |-> SummaryLine(damage_counts[k])]]

\* ------------------------------------------------ create_confidence_chart
\* the exception create_confidence_chart raises (None if it returns):
\* plotly's Figure has update_yaxes and no update_yaxis, so the call on
\* line 103 raises AttributeError whenever the function gets past line 82
create_confidence_chart_raises(dets) ==
    IF dets = <<>> THEN None ELSE "AttributeError"

\* ---------------------------------------------------- table and advice
\* rows of the "Detalhes Técnicos" table
TableRows(dets) ==
    [i \in 1..Len(dets) |-> [class |-> CleanName(dets[i].class),
                             confidence |-> FormatPercent(dets[i].confidence, 1)]]

AnyClass(dets, name) == \E i \in 1..Len(dets) : dets[i].class = name

\* high_conf_damages = [d for d in detections if d['confidence'] > 0.8]
HighConfDamages(dets) == {i \in 1..Len(dets) : dets[i].confidence > HighConfThreshold}

\* the elements of the "Recomendações" section
Recommendations(dets) ==
    {"recommendations_header"}
    \cup (IF AnyClass(dets, "shattered_glass") THEN {"glass_warning"} ELSE {})
    \cup (IF AnyClass(dets, "flat_tire") THEN {"tire_warning"} ELSE {})
    \cup (IF AnyClass(dets, "broken_lamp") THEN {"lamp_info"} ELSE {})
    \cup (IF HighConfDamages(dets) # {} THEN {"high_conf_success"} ELSE {})

\* ------------------------------------------------------- session state
Has(ss, key) == key \in DOMAIN ss

\* st.session_state[key] = value
SetKey(ss, key, value) == (key :> value) @@ ss

\* del st.session_state[key]
DelKey(ss, key) == [k \in DOMAIN ss \ {key} |-> ss[k]]

EmptyState == [k \in {} |-> None]

ExampleKeys == {example_images[i].key : i \in 1..Len(example_images)}

ExampleOf(key) == CHOOSE i \in 1..Len(example_images) : example_images[i].key = key

\* Image.open(path): the image is named by the file it was read from
ImageOpen(path) == path

\* the try body of a pressed example button: the session state it leaves
\* and the exception it raises (st.rerun() raises RerunException)
ExampleButtonBody(ss, ex, exists, opens) ==
    IF ~exists THEN [session_state |-> ss, example_image |-> None, raised |-> None]
    ELSE IF ~opens THEN [session_state |-> ss, example_image |-> None, raised |-> "OSError"]
    ELSE [session_state |-> SetKey(SetKey(ss, "uploaded_example", ImageOpen(ex.path)),
                                   "example_name", ex.label),
          example_image |-> ImageOpen(ex.path),
          raised |-> "RerunException"]

\* mutant: only the stored image is deleted
ClearExampleImageOnly(ss) ==
    IF Has(ss, "uploaded_example") THEN DelKey(ss, "uploaded_example") ELSE ss

\* the body of `if st.button("Testar Nova Imagem"):` before st.rerun()
ClearExample(ss) ==
    LET s1 == IF Has(ss, "uploaded_example") THEN DelKey(ss, "uploaded_example") ELSE ss
    IN IF Has(s1, "example_name") THEN DelKey(s1, "example_name") ELSE s1

\* mutant: the uploaded file is looked at before the stored example
SelectSourceUploadFirst(ss, file, opens) ==
    IF file # None /\ opens
    THEN [image_source |-> ImageOpen(file), image_name |-> "Imagem enviada",
          info |-> FALSE, raised |-> None]
    ELSE IF Has(ss, "uploaded_example") /\ Has(ss, "example_name")
    THEN [image_source |-> ss["uploaded_example"], image_name |-> ss["example_name"],
          info |-> TRUE, raised |-> None]
    ELSE [image_source |-> None, image_name |-> None, info |-> FALSE, raised |-> None]

\* the choice of the image source; raised is the exception of a failed lookup
\* or of Image.open on the uploaded file
SelectSource(ss, file, opens) ==
    IF Has(ss, "uploaded_example")
    THEN IF Has(ss, "example_name")
         THEN [image_source |-> ss["uploaded_example"], image_name |-> ss["example_name"],
               info |-> TRUE, raised |-> None]
         ELSE [image_source |-> ss["uploaded_example"], image_name |-> None,
               info |-> FALSE, raised |-> "KeyError"]
    ELSE IF file # None
    THEN IF opens
         THEN [image_source |-> ImageOpen(file), image_name |-> "Imagem enviada",
               info |-> FALSE, raised |-> None]
         ELSE [image_source |-> None, image_name |-> None, info |-> FALSE,
               raised |-> "OSError"]
    ELSE [image_source |-> None, image_name |-> None, info |-> FALSE, raised |-> None]

\* ------------------------------------------------------------ the script
NoImage == [of |-> None, plotted |-> FALSE, boxes |-> <<>>]

\* a run starts on an empty page with fresh locals
ResetRun ==
    /\ shown' = {}
    /\ example_image' = None
    /\ run_end' = "running"
    /\ model' = None
    /\ image_source' = None
    /\ image_name' = None
    /\ results' = <<>>
    /\ detector_arg' = NotCalled
    /\ detections' = <<>>
    /\ annotated_img' = NoImage
    /\ summary' = NoSummary
    /\ df_detections' = <<>>
    /\ high_conf' = 0

Init ==
    /\ pc = "start"
    /\ model_cache = "empty"
    /\ session_state = EmptyState
    /\ uploaded_file = None
    /\ pressed = "none"
    /\ trigger = "open"
    /\ example_image = None
    /\ shown = {}
    /\ run_end = "running"
    /\ model = None
    /\ image_source = None
    /\ image_name = None
    /\ results = <<>>
    /\ detector_arg = NotCalled
    /\ detections = <<>>
    /\ annotated_img = NoImage
    /\ summary = NoSummary
    /\ df_detections = <<>>
    /\ high_conf = 0
    /\ last_image = None
    /\ last_results = <<>>

\* a run ends (normally, by `return`, or with an uncaught exception); the
\* pressed button reads False again from then on
EndRun(how) ==
    /\ pc' = "idle"
    /\ run_end' = how
    /\ pressed' = "none"

\* lines 107-140: header, sidebar, load_model() under st.cache_resource, guard
MainStart ==
    /\ pc = "start"
    /\ \E exists \in BOOLEAN, download \in {"ok", "error"}, construct \in {"ok", "error"} :
        LET r == IF model_cache = "empty"
                 THEN load_model(exists, download, construct)
                 ELSE [raised |-> None, value |-> model_cache, error |-> model_cache = None]
            page == {"title", "sidebar"} \cup (IF r.error THEN {"load_exception_error"} ELSE {})
        IN IF r.raised # None
           THEN /\ EndRun("exception")
                /\ shown' = page \cup {"exception_traceback"}
                /\ UNCHANGED <<model_cache, model>>
           ELSE /\ model_cache' = r.value
                /\ model' = r.value
                /\ IF ModelGuard(r.value)
                   THEN /\ EndRun("returned")
                        /\ shown' = page \cup {"model_unavailable_error"}
                   ELSE /\ pc' = "gallery"
                        /\ shown' = page \cup {"model_success"}
                        /\ UNCHANGED <<run_end, pressed>>
    /\ UNCHANGED <<session_state, uploaded_file, trigger, example_image, image_source, image_name,
                   results, detector_arg, detections, annotated_img, summary,
                   df_detections, high_conf, last_image, last_results>>

\* lines 142-174: the uploader, the example buttons and the pressed one's body
MainGallery ==
    /\ pc = "gallery"
    /\ IF pressed \in ExampleKeys
       THEN \E exists \in BOOLEAN, opens \in BOOLEAN :
            LET ex == example_images[ExampleOf(pressed)]
                b == ExampleButtonBody(session_state, ex, exists, opens)
                page == shown \cup {"file_uploader", "example_gallery"}
            IN /\ session_state' = b.session_state
               /\ IF b.raised # None /\ BareExceptCatches(b.raised)
                  THEN /\ shown' = page \cup {"example_not_found_error"}
                       /\ example_image' = b.example_image
                       /\ pc' = "select"
                       /\ UNCHANGED <<pressed, trigger, run_end, model>>
                  ELSE IF b.raised = "RerunException"
                  THEN /\ pc' = "start"
                       /\ pressed' = "none"
                       /\ trigger' = "rerun_example"
                       /\ example_image' = None
                       /\ shown' = {}
                       /\ model' = None
                       /\ run_end' = "running"
                  ELSE IF b.raised # None
                  THEN /\ EndRun("exception")
                       /\ shown' = page \cup {"exception_traceback"}
                       /\ example_image' = b.example_image
                       /\ UNCHANGED <<trigger, model>>
                  ELSE /\ shown' = page
                       /\ example_image' = b.example_image
                       /\ pc' = "select"
                       /\ UNCHANGED <<pressed, trigger, run_end, model>>
       ELSE /\ shown' = shown \cup {"file_uploader", "example_gallery"}
            /\ pc' = "select"
            /\ UNCHANGED <<session_state, pressed, trigger, example_image, run_end, model>>
    /\ UNCHANGED <<model_cache, uploaded_file, image_source, image_name,
                   results, detector_arg, detections, annotated_img, summary,
                   df_detections, high_conf, last_image, last_results>>

\* lines 176-187 and 249-258: the image source, and the prompt when there is none
MainSelect ==
    /\ pc = "select"
    /\ \E opens \in BOOLEAN :
        LET s == SelectSource(session_state, uploaded_file, opens)
            page == shown \cup (IF s.info THEN {"using_example_info"} ELSE {})
        IN /\ image_source' = s.image_source
           /\ image_name' = s.image_name
           /\ IF s.raised # None
              THEN /\ EndRun("exception")
                   /\ shown' = page \cup {"exception_traceback"}
              ELSE IF s.image_source # None
              THEN /\ pc' = "results"
                   /\ shown' = page
                   /\ UNCHANGED <<run_end, pressed>>
              ELSE /\ EndRun("completed")
                   /\ shown' = page \cup {"start_prompt", "footer"}
    /\ UNCHANGED <<model_cache, session_state, uploaded_file, trigger, example_image,
                   model, results, detector_arg, detections, annotated_img, summary,
                   df_detections, high_conf, last_image, last_results>>

\* the elements lines 188-210 render before the chart is built
AnalysisPage == {"original_image", "annotated_image", "summary", "chart_heading"}

\* the elements lines 211-242 render when nothing raises
DetailsPage(dets) ==
    (IF dets # <<>>
     THEN {"confidence_chart", "results_table_header", "results_table"}
          \cup Recommendations(dets)
     ELSE {"no_damage_info"})
    \cup {"new_image_button"}

\* model(img_array): the detector is a function of the image, so the image of
\* the previous analysis gets the same boxes again; any other image gets any
\* result within the bounds
DetectorResults(image) == IF image = last_image THEN {last_results} ELSE BoxSeqs

\* lines 187-258: analysis, summary, chart, table, advice, "Testar Nova Imagem"
MainResults ==
    /\ pc = "results"
    /\ \E boxes \in DetectorResults(image_source), plot_ok \in BOOLEAN :
        /\ last_image' = image_source
        /\ last_results' = boxes
        /\ LET out == process_image(image_source, boxes, ModelNames, plot_ok)
               dets == out.detections
               chart_exc == IF dets # <<>> THEN create_confidence_chart_raises(dets) ELSE None
           IN IF chart_exc # None
              THEN /\ EndRun("exception")
                   /\ shown' = shown \cup AnalysisPage \cup {"exception_traceback"}
                   /\ results' = boxes
                   /\ detector_arg' = model
                   /\ detections' = dets
                   /\ annotated_img' = out.annotated_img
                   /\ summary' = create_detection_summary(dets)
                   /\ UNCHANGED <<session_state, trigger, example_image, model,
                                  image_source, image_name, df_detections, high_conf>>
              ELSE IF pressed = "new_image"
              THEN /\ session_state' = ClearExample(session_state)
                   /\ pc' = "start"
                   /\ pressed' = "none"
                   /\ trigger' = "rerun_new_image"
                   /\ ResetRun
              ELSE /\ EndRun("completed")
                   /\ shown' = shown \cup AnalysisPage \cup DetailsPage(dets) \cup {"footer"}
                   /\ results' = boxes
                   /\ detector_arg' = model
                   /\ detections' = dets
                   /\ annotated_img' = out.annotated_img
                   /\ summary' = create_detection_summary(dets)
                   /\ df_detections' = IF dets # <<>> THEN TableRows(dets) ELSE <<>>
                   /\ high_conf' = Cardinality(HighConfDamages(dets))
                   /\ UNCHANGED <<session_state, trigger, example_image, model,
                                  image_source, image_name>>
    /\ UNCHANGED <<model_cache, uploaded_file>>

\* ------------------------------------------------------------ the user
\* a widget interaction (or a plain rerun) starts the next run; the previous
\* analysis is remembered across interactions that leave the inputs alone
NextRun(button, same_inputs) ==
    /\ pc = "idle"
    /\ pc' = "start"
    /\ pressed' = button
    /\ trigger' = "user"
    /\ ResetRun
    /\ last_image' = IF same_inputs THEN last_image ELSE None
    /\ last_results' = IF same_inputs THEN last_results ELSE <<>>
    /\ UNCHANGED <<model_cache, session_state>>

UploadFile ==
    /\ "file_uploader" \in shown
    /\ \E f \in UploadFiles :
        /\ f # uploaded_file
        /\ uploaded_file' = f
    /\ NextRun("none", FALSE)

RemoveFile ==
    /\ "file_uploader" \in shown
    /\ uploaded_file # None
    /\ uploaded_file' = None
    /\ NextRun("none", FALSE)

PressExample ==
    /\ "example_gallery" \in shown
    /\ \E key \in ExampleKeys : NextRun(key, FALSE)
    /\ UNCHANGED uploaded_file

PressNewImage ==
    /\ "new_image_button" \in shown
    /\ NextRun("new_image", TRUE)
    /\ UNCHANGED uploaded_file

Rerun ==
    /\ NextRun("none", TRUE)
    /\ UNCHANGED uploaded_file

Next ==
    \/ MainStart
    \/ MainGallery
    \/ MainSelect
    \/ MainResults
    \/ UploadFile
    \/ RemoveFile
    \/ PressExample
    \/ PressNewImage
    \/ Rerun

Spec == Init /\ [][Next]_vars

\* ================================================================ claims
Analysed == detector_arg # NotCalled

RunOver == pc = "idle"

\* C1: every run with the model loaded and an image source renders the
\* original image, the annotated image and the summary; it renders the chart
\* and the table exactly when there is at least one detection, and with none
\* it renders the no-damage notice and neither table nor recommendations.
C1_RendersResults ==
    (RunOver /\ model # None /\ image_source # None) =>
        /\ {"original_image", "annotated_image", "summary"} \subseteq shown
        /\ "confidence_chart" \in shown <=> detections # <<>>
        /\ "results_table" \in shown <=> detections # <<>>
        /\ detections = <<>> =>
              /\ "no_damage_info" \in shown
              /\ "recommendations_header" \notin shown

\* C2: the detections list has one entry per box of the result, in the order
\* of the boxes, entry i holding names[cls[i]], conf[i] and xyxy[i]; it is
\* empty for a result without boxes.
C2_OneDetectionPerBox ==
    Analysed =>
        /\ Len(detections) = Len(results)
        /\ \A i \in 1..Len(results) :
              /\ detections[i].class = ModelNames[results[i].cls]
              /\ detections[i].confidence = results[i].conf
              /\ detections[i].bbox = results[i].xyxy

C2_Witness ==
    /\ Analysed
    /\ Len(results) = 2
    /\ results[1].conf = 800
    /\ results[1] # results[2]
    /\ Len(detections) = 2

ClassesOf(dets) == {dets[i].class : i \in 1..Len(dets)}

IndicesOf(dets, c) == {i \in 1..Len(dets) : dets[i].class = c}

FirstIndex(dets, c) == CHOOSE i \in IndicesOf(dets, c) : \A j \in IndicesOf(dets, c) : i <= j

RECURSIVE ConfidenceSum(_, _)
ConfidenceSum(dets, S) ==
    IF S = {} THEN 0
    ELSE LET i == CHOOSE x \in S : TRUE
         IN dets[i].confidence + ConfidenceSum(dets, S \ {i})

RECURSIVE CountSum(_, _)
CountSum(lines, k) == IF k = 0 THEN 0 ELSE lines[k].count + CountSum(lines, k - 1)

\* C3: the summary of an empty list is exactly the no-damage sentence;
\* otherwise its total is the length of the list and it has one line per
\* distinct class in order of first occurrence, each with the number of
\* detections of the class and their confidence sum over that number, the
\* counts adding up to the total.
C3_Summary ==
    summary.head # None =>
        IF detections = <<>>
        THEN summary = [head |-> "Nenhum dano detectado na imagem.", total |-> 0, lines |-> <<>>]
        ELSE /\ summary.head = "Total de danos detectados"
             /\ summary.total = Len(detections)
             /\ Len(summary.lines) = Cardinality(ClassesOf(detections))
             /\ \A k \in 1..Len(summary.lines) :
                   LET c == summary.lines[k].damage_type IN
                   /\ c \in ClassesOf(detections)
                   /\ summary.lines[k].count = Cardinality(IndicesOf(detections, c))
                   /\ summary.lines[k].avg_confidence.sum
                         = ConfidenceSum(detections, IndicesOf(detections, c))
                   /\ summary.lines[k].avg_confidence.n = summary.lines[k].count
                   /\ \A l \in 1..Len(summary.lines) :
                         k < l => FirstIndex(detections, c)
                                    < FirstIndex(detections, summary.lines[l].damage_type)
             /\ CountSum(summary.lines, Len(summary.lines)) = summary.total

C3_Witness ==
    /\ Len(detections) = 3
    /\ detections[1].class = detections[3].class
    /\ detections[1].class # detections[2].class
    /\ detections[1].confidence # detections[3].confidence
    /\ Len(summary.lines) = 2
    /\ summary.lines[1].count = 2
    /\ summary.lines[2].count = 1

\* C4: every class name among the detections is one of the six damage classes.
C4_OnlyDamageClasses ==
    \A i \in 1..Len(detections) : detections[i].class \in DamageClasses

\* C5: load_model returns None instead of raising; a run that gets None shows
\* the load error and returns before the uploader, the gallery or any result;
\* the detector is never called with a None model.
C5_NoModelNoAnalysis ==
    /\ run_end = "exception" => "model_success" \in shown
    /\ pc \in {"gallery", "select", "results"} => model # None
    /\ detector_arg # None
    /\ (RunOver /\ model_cache = None) =>
          /\ run_end = "returned"
          /\ "model_unavailable_error" \in shown
          /\ shown \subseteq {"title", "sidebar", "load_exception_error",
                              "model_unavailable_error"}
          /\ ~Analysed

C5_Witness ==
    /\ RunOver
    /\ model_cache = None
    /\ run_end = "returned"
    /\ "model_unavailable_error" \in shown

C7_NewImageButton ==
    /\ (RunOver /\ image_source # None) => "new_image_button" \in shown
    /\ trigger = "rerun_new_image" =>
          /\ ~Has(session_state, "uploaded_example")
          /\ ~Has(session_state, "example_name")
          /\ image_source \in {None, uploaded_file}
          /\ (RunOver /\ uploaded_file = None) => "start_prompt" \in shown

\* C8: where main selects the image source the two session keys are both
\* present or both absent, and when present the name is the label of the
\* example whose image is stored.
C8_KeysPaired ==
    pc = "select" =>
        /\ Has(session_state, "uploaded_example") <=> Has(session_state, "example_name")
        /\ Has(session_state, "uploaded_example") =>
              \E i \in 1..Len(example_images) :
                 /\ session_state["uploaded_example"] = example_images[i].path
                 /\ session_state["example_name"] = example_images[i].label

C8_Witness ==
    /\ pc = "select"
    /\ trigger = "user"
    /\ pressed = "none"
    /\ Has(session_state, "uploaded_example")
    /\ Has(session_state, "example_name")
    /\ uploaded_file # None

\* C9: a stored example is the image analysed even with a file uploaded; the
\* uploaded file is analysed only when no example is stored; and a stored
\* example goes away only by a press of "Testar Nova Imagem".
C9_ExampleFirst ==
    /\ [](pc = "results" =>
            IF Has(session_state, "uploaded_example")
            THEN image_source = session_state["uploaded_example"]
            ELSE uploaded_file # None /\ image_source = uploaded_file)
    /\ [][(Has(session_state, "uploaded_example")
             /\ ~Has(session_state', "uploaded_example")) => pressed = "new_image"]_vars

C9_Witness ==
    /\ pc = "results"
    /\ Has(session_state, "uploaded_example")
    /\ uploaded_file # None
    /\ image_source = session_state["uploaded_example"]

\* C10: the "Exemplo não encontrado" error is shown only when the pressed
\* example's image could not be loaded; a press whose image loads stores the
\* example and reruns without the error, the rerun not being caught.
C10_ErrorOnlyOnFailure ==
    /\ "example_not_found_error" \in shown => example_image = None
    /\ (pc = "select" /\ pressed \in ExampleKeys) => example_image = None

====
